---------------------------- MODULE Spec2Model ----------------------------
(***************************************************************************)
(* SPI decoder (src/spi_decoder.py): hysteresis digitizer, clock-edge     *)
(* latch, bit-group decoder and the main() pipeline that chains them.     *)
(*                                                                         *)
(* The three stages are pure functions; each is an operator computed the  *)
(* way the Python loop computes it, and one action per function applies   *)
(* it to inputs drawn from bounded sets.  main() is modelled statement by *)
(* statement.                                                             *)
(*                                                                         *)
(* Voltages are integers on an affine scale (level k stands for           *)
(* 0.2 + 0.6*k volts), so that the default thresholds 0.8 V and 2.0 V are *)
(* the levels 1 and 3; the digitizer only compares samples with the       *)
(* thresholds, so the scale keeps every outcome.                          *)
(*                                                                         *)
(* A call's outcome is a record: [return |-> value] when the function     *)
(* returns, [raised |-> kind, ...] when it raises.                        *)
(***************************************************************************)
EXTENDS Integers, Sequences, FiniteSets, TLC

VARIABLES
  pc,                 \* what has run: "start", a function's name, or a line of main
  data,               \* convert_analog_to_digital: argument data
  threshold_low,      \* convert_analog_to_digital: argument threshold_low
  threshold_high,     \* convert_analog_to_digital: argument threshold_high
  data_filt,          \* convert_analog_to_digital: the returned list
  sclk_digital,       \* latch_data_on_sclk_to_bitstream: argument sclk_digital
  data_digital,       \* latch_data_on_sclk_to_bitstream: argument data_digital
  rising_edge,        \* latch_data_on_sclk_to_bitstream: argument rising_edge
  latched,            \* latch_data_on_sclk_to_bitstream: outcome of the call
  bitstream,          \* decode_bitstream: argument bitstream
  group_by,           \* decode_bitstream: argument group_by
  MSB_first,          \* decode_bitstream: argument MSB_first
  hexadecimal,        \* decode_bitstream: argument hexadecimal
  grouped,            \* decode_bitstream: outcome of the call
  df,                 \* main: the dataframe's columns 1 and 2, <<sclk column, data column>>
  sclk,               \* main: local sclk
  signal,             \* main: local signal
  bit_stream,         \* main: local bit_stream
  decoded,            \* main: local decoded
  uncaught            \* main: the exception that ended main, or NoException

vars == <<pc, data, threshold_low, threshold_high, data_filt,
          sclk_digital, data_digital, rising_edge, latched,
          bitstream, group_by, MSB_first, hexadecimal, grouped,
          df, sclk, signal, bit_stream, decoded, uncaught>>

a2dVars    == <<data, threshold_low, threshold_high, data_filt>>
latchVars  == <<sclk_digital, data_digital, rising_edge, latched>>
decodeVars == <<bitstream, group_by, MSB_first, hexadecimal, grouped>>
mainVars   == <<df, sclk, signal, bit_stream, decoded, uncaught>>

(***************************************************************************)
(* Bounds of the model.                                                    *)
(***************************************************************************)
MaxLevel   == 4    \* analog samples and thresholds range over 0..MaxLevel
MaxSamples == 4    \* longest analog sequence given to the digitizer
MaxDigital == 5    \* longest digital sequence given to the latch
MaxBits    == 6    \* longest bit stream given to the decoder
MaxGroup   == 4    \* largest group_by given to the decoder
MaxRows    == 3    \* most rows of the dataframe main reads

(***************************************************************************)
(* Program constants.                                                      *)
(***************************************************************************)
None == -1                   \* Python's None: the initial previous_data
DefaultThresholdLow  == 1    \* threshold_low=0.8
DefaultThresholdHigh == 3    \* threshold_high=2.0
DefaultGroupBy == 8          \* group_by=8

NoException == [raised |-> "NoException"]
NotSet      == [unset |-> TRUE]     \* a call that has not been made

SeqsUpTo(S, n) == UNION {[1..k -> S] : k \in 0..n}
SeqsOfLen(S, k) == [1..k -> S]

Levels == 0..MaxLevel
\* The voltages main's dataframe holds: one at the low threshold, one in the
\* dead band, one at the high threshold.
MainVolts == {DefaultThresholdLow, DefaultThresholdLow + 1, DefaultThresholdHigh}
\* What the digitizer returns: a 0/1 sequence, or None throughout.
NoneSeq(k) == [i \in 1..k |-> None]
DigitalSeqs(n) == SeqsUpTo({0, 1}, n) \cup {NoneSeq(k) : k \in 1..n}

(***************************************************************************)
(* convert_analog_to_digital                                               *)
(***************************************************************************)
\* Variants of the two branches, each a slip the code could have made; the
\* properties below are checked to tell them from the code.
FirstSampleDefaultsLow(value, previous_data, tl, th) ==
  IF value >= th THEN 1 ELSE 0

NextSampleSwappedThresholds(value, previous_data, tl, th) ==
  IF value >= tl /\ 0 = previous_data THEN 1
  ELSE IF value <= th /\ 1 = previous_data THEN 0
  ELSE previous_data

NextSampleStrict(value, previous_data, tl, th) ==
  IF value > th /\ 0 = previous_data THEN 1
  ELSE IF value < tl /\ 1 = previous_data THEN 0
  ELSE previous_data

\* The first sample's branch.
FirstSample(value, previous_data, tl, th) ==
  IF value >= th THEN 1
  ELSE IF value <= tl THEN 0
  ELSE previous_data

\* Every later sample's branch.
NextSample(value, previous_data, tl, th) ==
  IF value >= th /\ 0 = previous_data THEN 1
  ELSE IF value <= tl /\ 1 = previous_data THEN 0
  ELSE previous_data

\* The for loop from its k-th value on, with the locals as they stand.
RECURSIVE A2DLoop(_, _, _, _, _, _, _)
A2DLoop(d, tl, th, k, filt, previous_data, first) ==
  IF k > Len(d) THEN filt
  ELSE LET p == IF first THEN FirstSample(d[k], previous_data, tl, th)
                         ELSE NextSample(d[k], previous_data, tl, th)
       IN  A2DLoop(d, tl, th, k + 1, Append(filt, p), p, FALSE)

convert_analog_to_digital(d, tl, th) ==
  A2DLoop(d, tl, th, 1, <<>>, None, TRUE)

(***************************************************************************)
(* latch_data_on_sclk_to_bitstream                                         *)
(* Python's index i is the model's i - 1: sequences here start at 1.       *)
(***************************************************************************)
LengthsMustMatch == [raised |-> "Lengths must match!"]

\* A variant that takes any transition for an edge, whatever rising_edge is.
IsEdgeIgnoresDirection(s, i, rising) ==
  \/ 1 = s[i] /\ 0 = s[i - 1]
  \/ 0 = s[i] /\ 1 = s[i - 1]

\* The test made at index i: the edge the caller selected.
IsEdge(s, i, rising) ==
  IF rising THEN 1 = s[i] /\ 0 = s[i - 1]
            ELSE 0 = s[i] /\ 1 = s[i - 1]

\* The for loop over range(1, len(sclk_digital)) from index i on.
RECURSIVE LatchLoop(_, _, _, _, _)
LatchLoop(s, d, rising, i, bs) ==
  IF i > Len(s) THEN bs
  ELSE LatchLoop(s, d, rising, i + 1,
                 IF IsEdge(s, i, rising) THEN Append(bs, d[i]) ELSE bs)

\* A variant that raises only when data_digital is too short to index.
latch_raises_on_short_data(s, d, rising) ==
  IF Len(s) > Len(d) THEN LengthsMustMatch
  ELSE [return |-> LatchLoop(s, d, rising, 2, <<>>)]

\* A variant that latches on the clock's level at every index, index 0
\* included, instead of on its edges.
RECURSIVE LevelLoop(_, _, _, _, _)
LevelLoop(s, d, rising, i, bs) ==
  IF i > Len(s) THEN bs
  ELSE LevelLoop(s, d, rising, i + 1,
                 IF s[i] = (IF rising THEN 1 ELSE 0) THEN Append(bs, d[i]) ELSE bs)

latch_on_level(s, d, rising) ==
  IF Len(s) # Len(d) THEN LengthsMustMatch
  ELSE [return |-> LevelLoop(s, d, rising, 1, <<>>)]

latch_data_on_sclk_to_bitstream(s, d, rising) ==
  IF Len(s) # Len(d) THEN LengthsMustMatch
  ELSE [return |-> LatchLoop(s, d, rising, 2, <<>>)]

(***************************************************************************)
(* decode_bitstream                                                        *)
(***************************************************************************)
\* a | b on non-negative integers.
RECURSIVE BitOr(_, _)
BitOr(a, b) ==
  IF a = 0 THEN b
  ELSE IF b = 0 THEN a
  ELSE (IF a % 2 = 1 \/ b % 2 = 1 THEN 1 ELSE 0) + 2 * BitOr(a \div 2, b \div 2)

\* bit << j
Shl(bit, j) == bit * 2^j

\* A variant that forgets the shift: number |= bit.
AccumulateNoShift(number, bit, j) == BitOr(number, bit)

\* number |= (bit << j)
Accumulate(number, bit, j) == BitOr(number, Shl(bit, j))

\* group[::-1]
Reverse(s) == [k \in 1..Len(s) |-> s[Len(s) + 1 - k]]

\* A variant that never reverses the group.
OrderedGroupNeverReversed(group, msb) == group

\* group[::-1] if MSB_first else group
OrderedGroup(group, msb) == IF msb THEN Reverse(group) ELSE group

\* for j, bit in enumerate(ordered_group), from the model's k-th element
\* (Python's j = k - 1) on.
RECURSIVE GroupNumber(_, _, _)
GroupNumber(ordered, k, number) ==
  IF k > Len(ordered) THEN number
  ELSE GroupNumber(ordered, k + 1, Accumulate(number, ordered[k], k - 1))

\* hex(number) for number >= 0: "0x" and the lowercase digits, no leading zero.
HexDigit(n) == <<"0", "1", "2", "3", "4", "5", "6", "7",
                 "8", "9", "a", "b", "c", "d", "e", "f">>[n + 1]

RECURSIVE HexDigits(_)
HexDigits(n) ==
  IF n < 16 THEN HexDigit(n) ELSE HexDigits(n \div 16) \o HexDigit(n % 16)

Hex(n) == "0x" \o HexDigits(n)

\* bitstream[i*group_by : group_by + i*group_by]
Group(bits, g, i) == SubSeq(bits, i * g + 1, g + i * g)

\* The outer for loop over range(groups_count) from i on.  A None among the
\* bits makes bit << j raise TypeError, and the call ends there.
RECURSIVE DecodeLoop(_, _, _, _, _, _, _)
DecodeLoop(bits, g, msb, hexa, groups_count, i, grouped_stream) ==
  IF i >= groups_count THEN [return |-> grouped_stream]
  ELSE LET group == Group(bits, g, i)
           number == GroupNumber(OrderedGroup(group, msb), 1, 0)
       IN  IF \E k \in 1..Len(group) : group[k] = None
           THEN [raised |-> "TypeError"]
           ELSE DecodeLoop(bits, g, msb, hexa, groups_count, i + 1,
                           Append(grouped_stream,
                                  IF hexa THEN Hex(number) ELSE number))

\* The exception of line 89, with the two quantities its message names.
CannotGroup(g, total_length) ==
  [raised |-> "Cannot group", group_by |-> g, total_length |-> total_length]

\* A variant without the divisibility check: the trailing partial group is
\* dropped and the complete groups are decoded.
decode_drops_partial_group(bits, g, msb, hexa) ==
  IF g = 0 THEN [raised |-> "ZeroDivisionError"]
  ELSE DecodeLoop(bits, g, msb, hexa, Len(bits) \div g, 0, <<>>)

decode_bitstream(bits, g, msb, hexa) ==
  LET total_length == Len(bits) IN
  IF g = 0 THEN [raised |-> "ZeroDivisionError"]
  ELSE IF total_length % g # 0 THEN CannotGroup(g, total_length)
  ELSE DecodeLoop(bits, g, msb, hexa, total_length \div g, 0, <<>>)

Raised(outcome) == "raised" \in DOMAIN outcome

(***************************************************************************)
(* State machine                                                           *)
(***************************************************************************)
Init ==
  /\ pc = "start"
  /\ data = <<>> /\ threshold_low = DefaultThresholdLow
  /\ threshold_high = DefaultThresholdHigh /\ data_filt = <<>>
  /\ sclk_digital = <<>> /\ data_digital = <<>> /\ rising_edge = TRUE
  /\ latched = NotSet
  /\ bitstream = <<>> /\ group_by = DefaultGroupBy /\ MSB_first = TRUE
  /\ hexadecimal = TRUE /\ grouped = NotSet
  /\ df = <<>> /\ sclk = <<>> /\ signal = <<>> /\ bit_stream = <<>>
  /\ decoded = <<>> /\ uncaught = NoException

\* A call of convert_analog_to_digital(data, threshold_low, threshold_high).
ConvertAnalogToDigital ==
  /\ pc = "start"
  /\ \E d \in SeqsUpTo(Levels, MaxSamples), tl \in Levels, th \in Levels :
       /\ data' = d
       /\ threshold_low' = tl
       /\ threshold_high' = th
       /\ data_filt' = convert_analog_to_digital(d, tl, th)
  /\ pc' = "convert_analog_to_digital"
  /\ UNCHANGED <<latchVars, decodeVars, mainVars>>

\* A call of latch_data_on_sclk_to_bitstream(sclk_digital, data_digital, rising_edge).
LatchDataOnSclkToBitstream ==
  /\ pc = "start"
  /\ \E s \in DigitalSeqs(MaxDigital), d \in DigitalSeqs(MaxDigital),
        r \in BOOLEAN :
       /\ sclk_digital' = s
       /\ data_digital' = d
       /\ rising_edge' = r
       /\ latched' = latch_data_on_sclk_to_bitstream(s, d, r)
  /\ pc' = "latch_data_on_sclk_to_bitstream"
  /\ UNCHANGED <<a2dVars, decodeVars, mainVars>>

\* A call of decode_bitstream(bitstream, group_by, MSB_first, hexadecimal).
DecodeBitstream ==
  /\ pc = "start"
  /\ \E b \in DigitalSeqs(MaxBits), g \in 0..MaxGroup,
        m \in BOOLEAN, h \in BOOLEAN :
       /\ bitstream' = b
       /\ group_by' = g
       /\ MSB_first' = m
       /\ hexadecimal' = h
       /\ grouped' = decode_bitstream(b, g, m, h)
  /\ pc' = "decode_bitstream"
  /\ UNCHANGED <<a2dVars, latchVars, mainVars>>

\* main, lines 117-118: no filename on the command line.
MainNoFilename ==
  /\ pc = "start"
  /\ uncaught' = [raised |-> "AttributeError"]
  /\ pc' = "main_raised"
  /\ UNCHANGED <<a2dVars, latchVars, decodeVars, df, sclk, signal,
                 bit_stream, decoded>>

\* main, lines 120-122: the file is read into a dataframe; its columns 1
\* and 2 have one value per row.
MainReadCsv ==
  /\ pc = "start"
  /\ \E n \in 0..MaxRows :
       \E c1 \in SeqsOfLen(MainVolts, n), c2 \in SeqsOfLen(MainVolts, n) :
         df' = <<c1, c2>>
  /\ pc' = "main_sclk"
  /\ UNCHANGED <<a2dVars, latchVars, decodeVars, sclk, signal, bit_stream,
                 decoded, uncaught>>

\* main, lines 120-122: the file is not found, df is None, the file is skipped.
MainFileNotFound ==
  /\ pc = "start"
  /\ pc' = "main_done"
  /\ UNCHANGED <<a2dVars, latchVars, decodeVars, mainVars>>

\* main, line 123.
MainSclk ==
  /\ pc = "main_sclk"
  /\ sclk' = convert_analog_to_digital(df[1], DefaultThresholdLow,
                                       DefaultThresholdHigh)
  /\ pc' = "main_signal"
  /\ UNCHANGED <<a2dVars, latchVars, decodeVars, df, signal, bit_stream,
                 decoded, uncaught>>

\* main, line 125.
MainSignal ==
  /\ pc = "main_signal"
  /\ signal' = convert_analog_to_digital(df[2], DefaultThresholdLow,
                                         DefaultThresholdHigh)
  /\ pc' = "main_latch"
  /\ UNCHANGED <<a2dVars, latchVars, decodeVars, df, sclk, bit_stream,
                 decoded, uncaught>>

\* main, line 128: rising_edge keeps its default, True.
MainLatch ==
  /\ pc = "main_latch"
  /\ LET r == latch_data_on_sclk_to_bitstream(sclk, signal, TRUE) IN
       /\ bit_stream' = IF Raised(r) THEN bit_stream ELSE r.return
       /\ uncaught' = IF Raised(r) THEN r ELSE uncaught
       /\ pc' = IF Raised(r) THEN "main_raised" ELSE "main_decode"
  /\ UNCHANGED <<a2dVars, latchVars, decodeVars, df, sclk, signal, decoded>>

\* main, lines 130-133: group_by, MSB_first and hexadecimal keep their
\* defaults; the decoded list is printed.
MainDecode ==
  /\ pc = "main_decode"
  /\ LET r == decode_bitstream(bit_stream, DefaultGroupBy, TRUE, TRUE) IN
       /\ decoded' = IF Raised(r) THEN decoded ELSE r.return
       /\ uncaught' = IF Raised(r) THEN r ELSE uncaught
       /\ pc' = IF Raised(r) THEN "main_raised" ELSE "main_done"
  /\ UNCHANGED <<a2dVars, latchVars, decodeVars, df, sclk, signal, bit_stream>>

Next ==
  \/ ConvertAnalogToDigital
  \/ LatchDataOnSclkToBitstream
  \/ DecodeBitstream
  \/ MainNoFilename
  \/ MainReadCsv
  \/ MainFileNotFound
  \/ MainSclk
  \/ MainSignal
  \/ MainLatch
  \/ MainDecode

Spec == Init /\ [][Next]_vars

(***************************************************************************)
(* Properties of convert_analog_to_digital                                 *)
(***************************************************************************)
A2DReturned == pc = "convert_analog_to_digital"

InDeadBand(value, tl, th) == tl < value /\ value < th

C2_OutputIsBinary ==
  A2DReturned => \A i \in 1..Len(data_filt) : data_filt[i] \in {0, 1}

\* C10 as stated: with threshold_low <= threshold_high and the first sample
\* outside the open interval between them, the output is 1 wherever the
\* sample is >= threshold_high and 0 wherever it is <= threshold_low.
C10_AsStated ==
  ( /\ A2DReturned /\ threshold_low <= threshold_high
    /\ Len(data) > 0 => ~InDeadBand(data[1], threshold_low, threshold_high) )
  => \A i \in 1..Len(data) :
       /\ data[i] >= threshold_high => data_filt[i] = 1
       /\ data[i] <= threshold_low => data_filt[i] = 0

\* C10 amended: the same, except at a sample equal to both thresholds
\* (threshold_low = threshold_high = sample): there the output is 1 at the
\* first index and, at a later index, the opposite of the output before it.
C10_LevelAtThreshold ==
  ( /\ A2DReturned /\ threshold_low <= threshold_high
    /\ Len(data) > 0 => ~InDeadBand(data[1], threshold_low, threshold_high) )
  => \A i \in 1..Len(data) :
       /\ data[i] >= threshold_high /\ data[i] > threshold_low
            => data_filt[i] = 1
       /\ data[i] <= threshold_low /\ data[i] < threshold_high
            => data_filt[i] = 0
       /\ data[i] = threshold_low /\ data[i] = threshold_high
            => data_filt[i] = IF i = 1 THEN 1 ELSE 1 - data_filt[i - 1]

\* C10 witness: equal thresholds, with a sample above, one below and one
\* equal to them after the first sample.
C10_Witness ==
  /\ A2DReturned /\ threshold_low = threshold_high
  /\ \E i \in 1..Len(data) : data[i] > threshold_high /\ data_filt[i] = 1
  /\ \E i \in 1..Len(data) : data[i] < threshold_low /\ data_filt[i] = 0
  /\ \E i \in 2..Len(data) : data[i] = threshold_high

(***************************************************************************)
(* Property of the digitizer followed by the latch                         *)
(***************************************************************************)
MainPastSclk ==
  /\ pc \in {"main_signal", "main_latch", "main_decode", "main_done",
             "main_raised"}
  /\ df # <<>>

MainPastLatch ==
  /\ pc \in {"main_decode", "main_done"}
  /\ df # <<>>

LatchCalled == pc = "latch_data_on_sclk_to_bitstream"

\* A qualifying edge at index i (i >= 2 here, i >= 1 in Python).
Qualifying(i) ==
  \/ rising_edge /\ sclk_digital[i - 1] = 0 /\ sclk_digital[i] = 1
  \/ ~rising_edge /\ sclk_digital[i - 1] = 1 /\ sclk_digital[i] = 0

QualifyingEdges == {i \in 2..Len(sclk_digital) : Qualifying(i)}

\* C3: for equal-length sequences the latch returns exactly data[i] for the
\* qualifying edges i of the selected direction, in increasing order of i:
\* as many bits as there are qualifying edges, the k-th bit being the data
\* value at the k-th qualifying edge.
C3_LatchedBitsAreDataAtEdges ==
  LatchCalled /\ Len(sclk_digital) = Len(data_digital) =>
    /\ ~Raised(latched)
    /\ Len(latched.return) = Cardinality(QualifyingEdges)
    /\ \A i \in QualifyingEdges :
         latched.return[Cardinality({e \in QualifyingEdges : e <= i})]
           = data_digital[i]

\* C3 witness: rising edges selected, a clock with two rising edges and a
\* falling edge between them, and different data values at the two edges.
C3_Witness ==
  /\ LatchCalled /\ rising_edge
  /\ Len(sclk_digital) = Len(data_digital)
  /\ Cardinality(QualifyingEdges) = 2
  /\ \E i \in 2..Len(sclk_digital) :
       sclk_digital[i - 1] = 1 /\ sclk_digital[i] = 0
  /\ latched = [return |-> <<1, 0>>]

\* C5: when len(clock) # len(data) the call raises the length-mismatch
\* error and returns nothing, for either value of rising_edge.
C5_LengthMismatchRaises ==
  LatchCalled /\ Len(sclk_digital) # Len(data_digital) =>
    latched = LengthsMustMatch

\* C5 witness: the data sequence is the longer one and the clock has a
\* qualifying edge, so a scan of the clock would have latched a bit.
C5_Witness ==
  /\ LatchCalled
  /\ Len(data_digital) > Len(sclk_digital)
  /\ QualifyingEdges # {}
  /\ latched = LengthsMustMatch

\* C8 as stated: for equal-length sequences of any length, zero included,
\* the returned bit stream is at most len(clock) - 1 long.
C8_AsStated ==
  LatchCalled /\ ~Raised(latched) =>
    Len(latched.return) <= Len(sclk_digital) - 1

\* C8 amended: for equal-length sequences of length at least one the
\* returned bit stream is at most len(clock) - 1 long; for empty sequences
\* it is empty (length 0, which is more than 0 - 1).
C8_LengthBelowInputLength ==
  LatchCalled /\ ~Raised(latched) =>
    IF Len(sclk_digital) = 0
    THEN latched.return = <<>>
    ELSE Len(latched.return) <= Len(sclk_digital) - 1

\* C8 witness: the bound is met, one bit latched from two samples.
C8_Witness ==
  /\ LatchCalled /\ ~Raised(latched)
  /\ Len(sclk_digital) = 2
  /\ Len(latched.return) = 1

(***************************************************************************)
(* Properties of decode_bitstream                                          *)
(***************************************************************************)
DecodeCalled == pc = "decode_bitstream"

IsBits(b) == \A i \in 1..Len(b) : b[i] \in {0, 1}

\* len(bits) is a multiple of a group size of at least one.
Divisible == group_by > 0 /\ Len(bitstream) % group_by = 0

\* The p-th bit (p in 1..group_by) of the k-th chunk (k >= 1).
ChunkBit(k, p) == bitstream[(k - 1) * group_by + p]

\* The weight of a chunk's p-th bit.
Weight(p) == IF MSB_first THEN 2^(group_by - p) ELSE 2^(p - 1)

RECURSIVE ChunkValueUpTo(_, _)
ChunkValueUpTo(k, p) ==
  IF p = 0 THEN 0 ELSE ChunkValueUpTo(k, p - 1) + ChunkBit(k, p) * Weight(p)

\* C4: with hex formatting off and len(bits) a multiple of group_by, the
\* decoder returns len(bits)/group_by integers, the k-th being the weighted
\* sum of the k-th chunk's bits: first bit heaviest when MSB_first, first
\* bit lightest otherwise.
C4_GroupValues ==
  DecodeCalled /\ ~hexadecimal /\ IsBits(bitstream) /\ Divisible =>
    /\ ~Raised(grouped)
    /\ Len(grouped.return) = Len(bitstream) \div group_by
    /\ \A k \in 1..Len(grouped.return) :
         grouped.return[k] = ChunkValueUpTo(k, group_by)

\* C4 witness: two groups of three bits, 1 0 0 and 0 1 1, MSB first.
C4_Witness ==
  /\ DecodeCalled /\ ~hexadecimal /\ MSB_first /\ group_by = 3
  /\ bitstream = <<1, 0, 0, 0, 1, 1>>
  /\ grouped = [return |-> <<4, 3>>]

\* C6: when len(bits) % group_by # 0 the call raises the indivisible-stream
\* error, naming group_by and the length, and returns no value: neither the
\* complete leading groups nor anything else.
C6_IndivisibleRaises ==
  DecodeCalled /\ group_by > 0 /\ Len(bitstream) % group_by # 0 =>
    grouped = CannotGroup(group_by, Len(bitstream))

\* C6 witness: a 0/1 stream with complete leading groups and a partial
\* trailing one.
C6_Witness ==
  /\ DecodeCalled /\ IsBits(bitstream)
  /\ group_by > 1 /\ Len(bitstream) > 2 * group_by
  /\ Len(bitstream) % group_by # 0
  /\ Raised(grouped)

\* A value re-expanded into group_by bits, in the decoder's bit order.
Expand(value) ==
  [p \in 1..group_by |->
     (value \div (IF MSB_first THEN 2^(group_by - p) ELSE 2^(p - 1))) % 2]

\* C7: on a well-formed input, re-expanding each decoded integer into
\* group_by bits in the same bit order gives back its chunk, and no other
\* bit sequence of the same length decodes to the same value sequence
\* (integers or hex strings), for both bit orders.
C7_DecodeIsInjective ==
  DecodeCalled /\ IsBits(bitstream) /\ Divisible =>
    /\ ~Raised(grouped)
    /\ ~hexadecimal =>
         \A k \in 1..(Len(bitstream) \div group_by) :
           Expand(grouped.return[k]) = [p \in 1..group_by |-> ChunkBit(k, p)]
    /\ \A other \in SeqsOfLen({0, 1}, Len(bitstream)) :
         other # bitstream =>
           decode_bitstream(other, group_by, MSB_first, hexadecimal) # grouped

\* C7 witness: two groups of three bits, 1 0 0 and 0 1 1, LSB first.
C7_Witness ==
  /\ DecodeCalled /\ ~hexadecimal /\ ~MSB_first /\ group_by = 3
  /\ bitstream = <<1, 0, 0, 0, 1, 1>>
  /\ grouped = [return |-> <<1, 6>>]

=============================================================================
